---- MODULE Spec2Model ----
(***************************************************************************)
(* Model of the traefik-auth-converter middleware.                         *)
(*                                                                         *)
(* Strings are sequences of byte values (Go strings are byte sequences),   *)
(* so that strings.SplitN, base64.StdEncoding and string concatenation are *)
(* computed on the bytes as the code computes them.                        *)
(*                                                                         *)
(* src/authconverter.go holds two packages:                                *)
(*   - package traefik_auth_converter (lines 113-235), the extended        *)
(*     middleware with sourceType/targetType and the "decoded" source;     *)
(*     specifications Spec and SpecPar;                                    *)
(*   - package authconverter (lines 1-111), the earlier middleware with    *)
(*     fixed Basic/Bearer schemes; its definitions carry the suffix _v1;   *)
(*     specification SpecSimple.                                           *)
(***************************************************************************)
EXTENDS Integers, Sequences, FiniteSets, TLC

VARIABLES
    config,       \* the *Config handed to New
    constructed,  \* New has returned
    handler,      \* the http.Handler New returned (Nil when it returned an error)
    newErr,       \* the error New returned
    inbound,      \* per request: Authorization values of the request on arrival
    reqHeader,    \* per request: Authorization values of req.Header now
    rw,           \* per request: what was written to the http.ResponseWriter
    pc,           \* per request: position inside ServeHTTP
    token,        \* ServeHTTP's local variable token, per invocation frame
    err,          \* ServeHTTP's local variable err, per invocation frame
    nextCalls,    \* per request: number of e.next.ServeHTTP(rw, req) calls
    seen          \* per request: the Authorization values next.ServeHTTP received

vars == <<config, constructed, handler, newErr, inbound, reqHeader, rw, pc,
          token, err, nextCalls, seen>>

----------------------------------------------------------------------------
(* Bounds of the model *)

MaxLen == 3    \* longest decoded credential whose base64 encoding is an input
MaxRaw == 2    \* longest raw (mostly not base64) payload that is an input
NumReq == 2    \* requests handled concurrently in SpecPar

----------------------------------------------------------------------------
(* Bytes and string constants of the source *)

SP    == 32    \* " "
COLON == 58    \* ":"
PAD   == 61    \* "="  (base64.StdPadding)

EmptyString == <<>>

password  == "password"
username  == "username"
unchanged == "full"
decoded   == "decoded"
combined  == "combined"

basic  == <<66, 97, 115, 105, 99>>          \* "Basic"
bearer == <<66, 101, 97, 114, 101, 114>>     \* "Bearer"
digest == <<68, 105, 103, 101, 115, 116>>    \* "Digest"

NoErr        == "nil"
ErrContents  == "invalid authorization header contents"
ErrType      == "invalid authorization type"
ErrBase64    == "Base64 decoding failed"
ErrPartial   == "partial "
ErrValue     == "invalid value in authorization header"
ErrSource    == "invalid token source"

\* the nil http.Handler
Nil == [nil |-> TRUE]

----------------------------------------------------------------------------
(* strings.SplitN(s, sep, 2) for a one-byte separator *)

RECURSIVE IndexFrom(_, _, _)
IndexFrom(s, c, i) ==
    IF i > Len(s) THEN 0
    ELSE IF s[i] = c THEN i
    ELSE IndexFrom(s, c, i + 1)

\* strings.Index: position of the first c in s, 0 when there is none
Index(s, c) == IndexFrom(s, c, 1)

RECURSIVE LastIndexFrom(_, _, _)
LastIndexFrom(s, c, i) ==
    IF i < 1 THEN 0
    ELSE IF s[i] = c THEN i
    ELSE LastIndexFrom(s, c, i - 1)

SplitAt(s, i) ==
    IF i = 0 THEN <<s>>
    ELSE <<SubSeq(s, 1, i - 1), SubSeq(s, i + 1, Len(s))>>

\* mutant: cuts at the last separator
SplitN2_last(s, c) == SplitAt(s, LastIndexFrom(s, c, Len(s)))

SplitN2(s, c) == SplitAt(s, Index(s, c))

----------------------------------------------------------------------------
(* encoding/base64, StdEncoding: standard alphabet, '=' padding, non-strict *)

B64Index(c) ==
    IF c >= 65 /\ c <= 90 THEN c - 65
    ELSE IF c >= 97 /\ c <= 122 THEN c - 71
    ELSE IF c >= 48 /\ c <= 57 THEN c + 4
    ELSE IF c = 43 THEN 62
    ELSE IF c = 47 THEN 63
    ELSE -1

B64Char(i) ==
    IF i <= 25 THEN i + 65
    ELSE IF i <= 51 THEN i + 71
    ELSE IF i <= 61 THEN i - 4
    ELSE IF i = 62 THEN 43
    ELSE 47

DecodeFail == [ok |-> FALSE, out |-> <<>>]

NotNewline(c) == c # 10 /\ c # 13

\* the three bytes of one quantum of four 6-bit values
Quantum(a, b, c, d) ==
    LET val == a * 262144 + b * 4096 + c * 64 + d
    IN  <<val \div 65536, (val \div 256) % 256, val % 256>>

RECURSIVE DecodeQuanta(_)
DecodeQuanta(t) ==
    IF Len(t) = 0 THEN [ok |-> TRUE, out |-> <<>>]
    ELSE IF Len(t) < 4 THEN DecodeFail
    ELSE
      LET a == B64Index(t[1])
          b == B64Index(t[2])
          c == B64Index(t[3])
          d == B64Index(t[4])
          rest == SubSeq(t, 5, Len(t))
      IN  IF a < 0 \/ b < 0 THEN DecodeFail
          ELSE IF c < 0 THEN
              IF t[3] = PAD /\ t[4] = PAD /\ rest = <<>>
              THEN [ok |-> TRUE, out |-> SubSeq(Quantum(a, b, 0, 0), 1, 1)]
              ELSE DecodeFail
          ELSE IF d < 0 THEN
              IF t[4] = PAD /\ rest = <<>>
              THEN [ok |-> TRUE, out |-> SubSeq(Quantum(a, b, c, 0), 1, 2)]
              ELSE DecodeFail
          ELSE
              LET r == DecodeQuanta(rest)
              IN  IF r.ok THEN [ok |-> TRUE, out |-> Quantum(a, b, c, d) \o r.out]
                  ELSE DecodeFail

\* base64.StdEncoding.DecodeString: '\r' and '\n' are skipped
DecodeString(s) == DecodeQuanta(SelectSeq(s, NotNewline))

RECURSIVE EncodeToString(_)
EncodeToString(b) ==
    IF Len(b) = 0 THEN <<>>
    ELSE IF Len(b) = 1 THEN
        <<B64Char(b[1] \div 4), B64Char((b[1] % 4) * 16), PAD, PAD>>
    ELSE IF Len(b) = 2 THEN
        <<B64Char(b[1] \div 4),
          B64Char((b[1] % 4) * 16 + b[2] \div 16),
          B64Char((b[2] % 16) * 4), PAD>>
    ELSE
        <<B64Char(b[1] \div 4),
          B64Char((b[1] % 4) * 16 + b[2] \div 16),
          B64Char((b[2] % 16) * 4 + b[3] \div 64),
          B64Char(b[3] % 64)>> \o EncodeToString(SubSeq(b, 4, Len(b)))

----------------------------------------------------------------------------
(* package traefik_auth_converter: Config, New, getToken, ServeHTTP *)

CreateConfig ==
    [tokenSource |-> combined, encodeToken |-> FALSE,
     sourceType |-> basic, targetType |-> bearer]

\* mutant: the map of the earlier package, without "decoded"
validConfig_nodecoded == {username, password, unchanged, combined}

validConfig == {username, password, unchanged, combined, decoded}

\* mutant: New fills zero-valued fields with the values of CreateConfig
NewConfig_defaults(cfg) ==
    [tokenSource |-> cfg.tokenSource,
     encodeToken |-> cfg.encodeToken,
     sourceType  |-> IF cfg.sourceType = EmptyString THEN basic ELSE cfg.sourceType,
     targetType  |-> IF cfg.targetType = EmptyString THEN bearer ELSE cfg.targetType]

\* the config field of the AuthConverter New builds: the pointer it was given
NewConfig(cfg) == cfg

Ok(t)   == [token |-> t, err |-> NoErr]
Fail(e) == [token |-> EmptyString, err |-> e]

\* mutant: "combined" keeps the colon between the two parts
selectToken_colon(tokenSource, basicTokenParts) ==
    IF tokenSource = username THEN Ok(basicTokenParts[1])
    ELSE IF tokenSource = password THEN Ok(basicTokenParts[2])
    ELSE IF tokenSource = combined
         THEN Ok(basicTokenParts[1] \o <<COLON>> \o basicTokenParts[2])
    ELSE Fail(ErrSource)

\* the switch on e.config.tokenSource
selectToken(tokenSource, basicTokenParts) ==
    IF tokenSource = username THEN Ok(basicTokenParts[1])
    ELSE IF tokenSource = password THEN Ok(basicTokenParts[2])
    ELSE IF tokenSource = combined THEN Ok(basicTokenParts[1] \o basicTokenParts[2])
    ELSE Fail(ErrSource)

\* mutant: the Basic requirement is checked before the "decoded" source returns
fromDecoded_basicfirst(cfg, sourceTokenDecoded) ==
    IF cfg.sourceType # basic THEN Fail(ErrPartial)
    ELSE IF cfg.tokenSource = decoded THEN Ok(sourceTokenDecoded)
    ELSE LET basicTokenParts == SplitN2(sourceTokenDecoded, COLON)
         IN  IF Len(basicTokenParts) # 2 THEN Fail(ErrValue)
             ELSE selectToken(cfg.tokenSource, basicTokenParts)

\* mutant: the Basic requirement is missing
fromDecoded_nobasic(cfg, sourceTokenDecoded) ==
    IF cfg.tokenSource = decoded THEN Ok(sourceTokenDecoded)
    ELSE LET basicTokenParts == SplitN2(sourceTokenDecoded, COLON)
         IN  IF Len(basicTokenParts) # 2 THEN Fail(ErrValue)
             ELSE selectToken(cfg.tokenSource, basicTokenParts)

\* getToken after the successful base64 decoding
fromDecoded(cfg, sourceTokenDecoded) ==
    IF cfg.tokenSource = decoded THEN Ok(sourceTokenDecoded)
    ELSE IF cfg.sourceType # basic THEN Fail(ErrPartial)
    ELSE LET basicTokenParts == SplitN2(sourceTokenDecoded, COLON)
         IN  IF Len(basicTokenParts) # 2 THEN Fail(ErrValue)
             ELSE selectToken(cfg.tokenSource, basicTokenParts)

\* getToken after the scheme check
fromPayload(cfg, sourceTokenBase64) ==
    IF cfg.tokenSource = unchanged THEN Ok(sourceTokenBase64)
    ELSE LET d == DecodeString(sourceTokenBase64)
         IN  IF ~d.ok THEN Fail(ErrBase64)
             ELSE fromDecoded(cfg, d.out)

getToken(cfg, header) ==
    LET splitHeader == SplitN2(header, SP)
    IN  IF Len(splitHeader) # 2 THEN Fail(ErrContents)
        ELSE IF splitHeader[1] # cfg.sourceType THEN Fail(ErrType)
        ELSE fromPayload(cfg, splitHeader[2])

\* http.Header.Get: the first value, "" when the header is absent
HeaderGet(values) == IF Len(values) = 0 THEN EmptyString ELSE values[1]

\* mutant: http.Header.Add
HeaderSet_add(values, v) == Append(values, v)

\* http.Header.Set: the value replaces every value there was
HeaderSet(values, v) == <<v>>

encodeIfAsked(cfg, t) == IF cfg.encodeToken THEN EncodeToString(t) ELSE t

authorization(cfg, t) == cfg.targetType \o <<SP>> \o t

\* mutant: the header is set whatever getToken returned
shouldSet_always(e) == TRUE

\* the test err == nil of ServeHTTP
shouldSet(e) == e = NoErr

\* mutant: one token/err pair shared by all invocations (a field of the handler)
Frame_shared(r) == 1

\* the frame holding the locals token and err of the invocation for request r
Frame(r) == r

NoResponse == [header |-> <<>>, status |-> 0, body |-> <<>>]

Reqs == DOMAIN pc

New ==
    /\ ~constructed
    /\ constructed' = TRUE
    /\ IF config.tokenSource \notin validConfig
       THEN /\ handler' = Nil
            /\ newErr' = ErrSource
       ELSE /\ handler' = [next |-> "next", config |-> NewConfig(config)]
            /\ newErr' = NoErr
    /\ UNCHANGED <<config, inbound, reqHeader, rw, pc, token, err, nextCalls, seen>>

\* token, err := e.getToken(req.Header.Get(HeaderName))
GetToken(r) ==
    /\ constructed /\ handler # Nil
    /\ pc[r] = "start"
    /\ LET res == getToken(handler.config, HeaderGet(reqHeader[r]))
       IN  /\ token' = [token EXCEPT ![Frame(r)] = res.token]
           /\ err' = [err EXCEPT ![Frame(r)] = res.err]
    /\ pc' = [pc EXCEPT ![r] = "check"]
    /\ UNCHANGED <<config, constructed, handler, newErr, inbound, reqHeader, rw,
                   nextCalls, seen>>

\* if err == nil { ...; req.Header.Set(HeaderName, authorization) }
SetHeader(r) ==
    /\ pc[r] = "check"
    /\ shouldSet(err[Frame(r)])
    /\ LET t == encodeIfAsked(handler.config, token[Frame(r)])
       IN  /\ token' = [token EXCEPT ![Frame(r)] = t]
           /\ reqHeader' = [reqHeader EXCEPT
                               ![r] = HeaderSet(@, authorization(handler.config, t))]
    /\ pc' = [pc EXCEPT ![r] = "next"]
    /\ UNCHANGED <<config, constructed, handler, newErr, inbound, rw, err,
                   nextCalls, seen>>

\* err != nil: the if body is skipped
SkipHeader(r) ==
    /\ pc[r] = "check"
    /\ ~shouldSet(err[Frame(r)])
    /\ pc' = [pc EXCEPT ![r] = "next"]
    /\ UNCHANGED <<config, constructed, handler, newErr, inbound, reqHeader, rw,
                   token, err, nextCalls, seen>>

\* e.next.ServeHTTP(rw, req)
CallNext(r) ==
    /\ pc[r] = "next"
    /\ nextCalls' = [nextCalls EXCEPT ![r] = @ + 1]
    /\ seen' = [seen EXCEPT ![r] = reqHeader[r]]
    /\ pc' = [pc EXCEPT ![r] = "done"]
    /\ UNCHANGED <<config, constructed, handler, newErr, inbound, reqHeader, rw,
                   token, err>>

Next ==
    \/ New
    \/ \E r \in Reqs : GetToken(r)
    \/ \E r \in Reqs : SetHeader(r)
    \/ \E r \in Reqs : SkipHeader(r)
    \/ \E r \in Reqs : CallNext(r)

----------------------------------------------------------------------------
(* Inputs *)

SeqsUpTo(S, n) == UNION {[1..k -> S] : k \in 0..n}

lowerBasic == <<98, 97, 115, 105, 99>>     \* "basic"

\* credentials over "a", "b" and ":", base64-encoded by the client
Credentials == SeqsUpTo({97, 98, COLON}, MaxLen)

\* payloads over "Y", "-", " " and "="
RawPayloads == SeqsUpTo({89, 45, SP, PAD}, MaxRaw)

ExtraPayloads ==
    { <<89, 81, 61, 97>>,                  \* "YQ=a"   padding followed by data
      <<89, 82, 61, 61>>,                  \* "YR=="   non-zero trailing bits
      <<89, 84, 112, 105, 10>>,            \* "YTpi\n" newline after the data
      <<89, 84, 112, 105, 89, 81>>,        \* "YTpiYQ" padding missing
      <<61, 84, 112, 105>>,                \* "=Tpi"   padding first
      <<89, 84, 111, 61, 89, 84, 111, 61>>,\* "YTo=YTo=" data after padding
      <<89, 84, 112, 45>> }                \* "YTp-"   byte outside the alphabet

Payloads == {EncodeToString(c) : c \in Credentials} \cup RawPayloads \cup ExtraPayloads

InboundSchemes == {basic, bearer, lowerBasic, EmptyString}

HeaderStrings ==
    {s \o <<SP>> \o p : s \in InboundSchemes, p \in Payloads}
      \cup {basic, EmptyString, basic \o <<89, 84, 112, 105>>}

otherValue == bearer \o <<SP, 89, 84, 112, 105>>     \* "Bearer YTpi"

\* the Authorization values of a request: none, one, or two
HeaderValues ==
    {<<>>} \cup {<<h>> : h \in HeaderStrings}
           \cup {<<h, otherValue>> : h \in {basic \o <<SP>> \o p : p \in ExtraPayloads \cup {<<89, 84, 112, 105>>}}}

TokenSources ==
    {password, username, unchanged, decoded, combined, "unchanged", "not_a_source", ""}

Configs ==
    [tokenSource : TokenSources, encodeToken : BOOLEAN,
     sourceType : {basic, bearer, EmptyString},
     targetType : {bearer, digest, EmptyString}]

InitWith(cfgs, n, hdrs) ==
    /\ config \in cfgs
    /\ constructed = FALSE
    /\ handler = Nil
    /\ newErr = NoErr
    /\ inbound \in [1..n -> hdrs]
    /\ reqHeader = inbound
    /\ rw = [r \in 1..n |-> NoResponse]
    /\ pc = [r \in 1..n |-> "start"]
    /\ token = [r \in 1..n |-> EmptyString]
    /\ err = [r \in 1..n |-> NoErr]
    /\ nextCalls = [r \in 1..n |-> 0]
    /\ seen = [r \in 1..n |-> <<>>]

\* one request, every configuration and every header of the input sets
Init == InitWith(Configs, 1, HeaderValues)

Spec == Init /\ [][Next]_vars

\* ServeHTTP run from its first to its last statement: the Authorization values
\* the request ends with
ServeHTTPAlone(cfg, values) ==
    LET res == getToken(cfg, HeaderGet(values))
    IN  IF shouldSet(res.err)
        THEN HeaderSet(values, authorization(cfg, encodeIfAsked(cfg, res.token)))
        ELSE values

----------------------------------------------------------------------------
(* Concurrent requests on one handler *)

yTpi == <<89, 84, 112, 105>>     \* "YTpi", base64 of "a:b"

ParConfigs ==
    [tokenSource : validConfig, encodeToken : BOOLEAN,
     sourceType : {basic, bearer}, targetType : {bearer}]

ParHeaders ==
    { <<>>,
      <<basic \o <<SP>> \o yTpi>>,
      <<bearer \o <<SP>> \o yTpi>>,
      <<basic \o <<SP, 89, 81, 61, 61>>>>,      \* "Basic YQ==", no colon
      <<basic \o <<SP, 89, 45>>>> }             \* "Basic Y-", not base64

InitPar == InitWith(ParConfigs, NumReq, ParHeaders)

SpecPar == InitPar /\ [][Next]_vars

----------------------------------------------------------------------------
(* package authconverter, the earlier middleware (src/authconverter.go 1-111) *)

validConfig_v1 == {username, password, unchanged, combined}

getToken_v1(tokenSource, header) ==
    LET splitHeader == SplitN2(header, SP)
    IN  IF Len(splitHeader) # 2 THEN Fail(ErrContents)
        ELSE IF splitHeader[1] # basic THEN Fail(ErrType)
        ELSE IF tokenSource = unchanged THEN Ok(splitHeader[2])
        ELSE LET d == DecodeString(splitHeader[2])
             IN  IF ~d.ok THEN Fail(ErrBase64)
                 ELSE LET basicTokenParts == SplitN2(d.out, COLON)
                      IN  IF Len(basicTokenParts) # 2 THEN Fail(ErrValue)
                          ELSE selectToken(tokenSource, basicTokenParts)

New_v1 ==
    /\ ~constructed
    /\ constructed' = TRUE
    /\ IF config.tokenSource \notin validConfig_v1
       THEN /\ handler' = Nil
            /\ newErr' = ErrSource
       ELSE /\ handler' = [next |-> "next", tokenSource |-> config.tokenSource,
                           encodeToken |-> config.encodeToken]
            /\ newErr' = NoErr
    /\ UNCHANGED <<config, inbound, reqHeader, rw, pc, token, err, nextCalls, seen>>

GetToken_v1(r) ==
    /\ constructed /\ handler # Nil
    /\ pc[r] = "start"
    /\ LET res == getToken_v1(handler.tokenSource, HeaderGet(reqHeader[r]))
       IN  /\ token' = [token EXCEPT ![r] = res.token]
           /\ err' = [err EXCEPT ![r] = res.err]
    /\ pc' = [pc EXCEPT ![r] = "check"]
    /\ UNCHANGED <<config, constructed, handler, newErr, inbound, reqHeader, rw,
                   nextCalls, seen>>

\* if err == nil { ...; rw.Header().Set(HeaderName, authorization) }
SetHeader_v1(r) ==
    /\ pc[r] = "check"
    /\ err[r] = NoErr
    /\ LET t == IF handler.encodeToken THEN EncodeToString(token[r]) ELSE token[r]
       IN  /\ token' = [token EXCEPT ![r] = t]
           /\ rw' = [rw EXCEPT ![r].header = HeaderSet(@, bearer \o <<SP>> \o t)]
    /\ pc' = [pc EXCEPT ![r] = "next"]
    /\ UNCHANGED <<config, constructed, handler, newErr, inbound, reqHeader, err,
                   nextCalls, seen>>

SkipHeader_v1(r) ==
    /\ pc[r] = "check"
    /\ err[r] # NoErr
    /\ pc' = [pc EXCEPT ![r] = "next"]
    /\ UNCHANGED <<config, constructed, handler, newErr, inbound, reqHeader, rw,
                   token, err, nextCalls, seen>>

CallNext_v1(r) ==
    /\ pc[r] = "next"
    /\ nextCalls' = [nextCalls EXCEPT ![r] = @ + 1]
    /\ seen' = [seen EXCEPT ![r] = reqHeader[r]]
    /\ pc' = [pc EXCEPT ![r] = "done"]
    /\ UNCHANGED <<config, constructed, handler, newErr, inbound, reqHeader, rw,
                   token, err>>

NextSimple ==
    \/ New_v1
    \/ \E r \in Reqs : GetToken_v1(r)
    \/ \E r \in Reqs : SetHeader_v1(r)
    \/ \E r \in Reqs : SkipHeader_v1(r)
    \/ \E r \in Reqs : CallNext_v1(r)

Configs_v1 ==
    [tokenSource : {password, username, unchanged, combined, decoded, "not_a_source"},
     encodeToken : BOOLEAN]

InitSimple == InitWith(Configs_v1, 1, HeaderValues)

SpecSimple == InitSimple /\ [][NextSimple]_vars

----------------------------------------------------------------------------
(* Vocabulary of the properties, stated without the operators of the code *)

\* the value ServeHTTP reads: the first Authorization value, "" when absent
Inbound(r) == IF inbound[r] = <<>> THEN <<>> ELSE inbound[r][1]

Has(s, c) == \E i \in 1..Len(s) : s[i] = c

First(s, c) == CHOOSE i \in 1..Len(s) : s[i] = c /\ \A j \in 1..(i - 1) : s[j] # c

Left(s, c)  == [j \in 1..(First(s, c) - 1) |-> s[j]]
Right(s, c) == [j \in 1..(Len(s) - First(s, c)) |-> s[First(s, c) + j]]

SchemeOf(h)  == Left(h, SP)
PayloadOf(h) == Right(h, SP)

\* the header names the scheme the configuration expects
Matches(cfg, h) == Has(h, SP) /\ SchemeOf(h) = cfg.sourceType

IsStdBase64Of(x, bytes) ==
    /\ Len(x) % 4 = 0
    /\ \A i \in 1..Len(x) : B64Index(x[i]) >= 0 \/ x[i] = PAD
    /\ DecodeString(x) = [ok |-> TRUE, out |-> bytes]
    /\ x = EncodeToString(bytes)

Splitting == {username, password, combined}

Counted(S, s, c) == Cardinality({i \in 1..Len(s) : s[i] = c}) \in S

\* the rules of extraction failure: malformed header, scheme mismatch, decode
\* error, unsupported source for the split, credential without a colon
FailsByRule(cfg, h) ==
    \/ ~Has(h, SP)
    \/ SchemeOf(h) # cfg.sourceType
    \/ /\ cfg.tokenSource # unchanged
       /\ \/ ~DecodeString(PayloadOf(h)).ok
          \/ /\ cfg.tokenSource # decoded
             /\ \/ cfg.sourceType # basic
                \/ ~Has(DecodeString(PayloadOf(h)).out, COLON)
                \/ cfg.tokenSource \notin Splitting

Served(r) == pc[r] \in {"next", "done"}

----------------------------------------------------------------------------
(* Properties *)

\* C1: whenever the extractor fails (getToken returned an error, or the header
\* falls under one of the failure rules), the request's Authorization values are
\* exactly those it arrived with, absent staying absent, at every point of
\* ServeHTTP and when the next handler receives the request.
C1_FailOpen ==
    \A r \in Reqs :
        (pc[r] # "start" /\ (err[r] # NoErr \/ FailsByRule(config, Inbound(r))))
            => /\ err[r] # NoErr
               /\ reqHeader[r] = inbound[r]
               /\ (pc[r] = "done" => seen[r] = inbound[r])

C1_Witness ==
    \E r \in Reqs :
        /\ pc[r] = "done" /\ err[r] = ErrValue
        /\ Len(inbound[r]) = 2 /\ reqHeader[r] = inbound[r]

\* C2: after a successful extraction the request has exactly one Authorization
\* value, target_type + " " + T, with T the extracted token, or its standard
\* base64 encoding when encode_token is set; T does not depend on target_type.
C2_Rewrite ==
    \A r \in Reqs :
        (Served(r) /\ err[r] = NoErr) =>
            LET x == getToken([config EXCEPT !.targetType = bearer], Inbound(r)).token
                out == reqHeader[r][1]
                T == [j \in 1..(Len(out) - Len(config.targetType) - 1)
                        |-> out[Len(config.targetType) + 1 + j]]
            IN  /\ Len(reqHeader[r]) = 1
                /\ out = config.targetType \o <<SP>> \o T
                /\ IF config.encodeToken THEN IsStdBase64Of(T, x) ELSE T = x
                /\ (pc[r] = "done" => seen[r] = reqHeader[r])

C2_Witness ==
    \E r \in Reqs :
        /\ pc[r] = "done" /\ err[r] = NoErr
        /\ config.encodeToken /\ config.targetType = digest
        /\ Len(inbound[r]) = 2 /\ Len(reqHeader[r]) = 1

\* C3: the next handler is invoked exactly once per request, after the header
\* decision, with the request as ServeHTTP leaves it, and the converter writes
\* nothing to the response: no status, no body, no response header.
C3_ForwardOnce ==
    \A r \in Reqs :
        /\ nextCalls[r] <= 1
        /\ (nextCalls[r] = 1 <=> pc[r] = "done")
        /\ (pc[r] = "done" => seen[r] = reqHeader[r])
        /\ rw[r] = NoResponse

\* C4 as stated: New accepts exactly the tokenSource values "username",
\* "password", "combined", "unchanged" and "decoded", whatever the other fields
\* are, the handler carrying the configuration; every other value is an error
\* and no handler.
C4_Original ==
    constructed =>
        /\ (config.tokenSource \in {"username", "password", "combined", "unchanged", "decoded"})
              <=> (handler # Nil /\ newErr = NoErr)
        /\ (handler # Nil => handler.config = config)
        /\ (handler = Nil => newErr # NoErr)

\* C4 amended: the accepted values are "username", "password", "combined",
\* "full" (the value of the constant unchanged) and "decoded"; "unchanged" is
\* rejected like any other value.
C4_Construction ==
    constructed =>
        /\ (config.tokenSource \in {"username", "password", "combined", "full", "decoded"})
              <=> (handler # Nil /\ newErr = NoErr)
        /\ (handler # Nil => handler.config = config)
        /\ (handler = Nil => newErr # NoErr)

C4_Witness ==
    /\ constructed /\ handler # Nil
    /\ config.tokenSource = "full" /\ config.sourceType = bearer
    /\ config.targetType = digest /\ config.encodeToken

Defaulted(cfg) ==
    [tokenSource |-> IF cfg.tokenSource = "" THEN "combined" ELSE cfg.tokenSource,
     encodeToken |-> cfg.encodeToken,
     sourceType  |-> IF cfg.sourceType = <<>> THEN basic ELSE cfg.sourceType,
     targetType  |-> IF cfg.targetType = <<>> THEN bearer ELSE cfg.targetType]

\* C5 as stated: a handler built from a configuration with zero-valued fields
\* behaves as if they held the defaults Basic, Bearer, combined, false.
C5_Original ==
    /\ (constructed /\ Defaulted(config).tokenSource = "combined") => handler # Nil
    /\ \A r \in Reqs :
          pc[r] = "done" => reqHeader[r] = ServeHTTPAlone(Defaulted(config), inbound[r])

\* C5 amended: the defaults Basic, Bearer, combined, false are the values of the
\* configuration CreateConfig returns, and a handler built from that
\* configuration turns "Basic <payload>" into "Bearer <token>". New applies no
\* default: the handler carries the fields as given, a zero token_source is
\* rejected, a zero source_type matches only a header whose scheme is empty, and
\* a zero target_type emits " " + token.
C5_Defaults ==
    /\ (constructed /\ config.tokenSource = "") => (handler = Nil /\ newErr = ErrSource)
    /\ handler # Nil => handler.config = config
    /\ \A r \in Reqs :
          pc[r] = "done" =>
            /\ (config.sourceType = <<>> /\ reqHeader[r] # inbound[r])
                  => (Has(Inbound(r), SP) /\ SchemeOf(Inbound(r)) = <<>>)
            /\ (config.targetType = <<>> /\ err[r] = NoErr)
                  => (reqHeader[r][1] # <<>> /\ reqHeader[r][1][1] = SP)
            /\ (config.sourceType = <<>> /\ config.tokenSource \in Splitting)
                  => (err[r] # NoErr /\ reqHeader[r] = inbound[r])
            /\ (config = CreateConfig /\ ~FailsByRule(CreateConfig, Inbound(r)))
                  => /\ SchemeOf(Inbound(r)) = basic
                     /\ reqHeader[r] =
                          <<bearer \o <<SP>>
                              \o Left(DecodeString(PayloadOf(Inbound(r))).out, COLON)
                              \o Right(DecodeString(PayloadOf(Inbound(r))).out, COLON)>>

C5_Witness ==
    \E r \in Reqs :
        /\ pc[r] = "done" /\ err[r] = NoErr
        /\ config.sourceType = <<>> /\ config.targetType = <<>>
        /\ config.tokenSource = decoded
        /\ reqHeader[r] # inbound[r]

\* C6 as stated: with token_source unchanged and a header of the expected
\* scheme, extraction succeeds without decoding and the payload of the rewritten
\* header is the inbound payload byte for byte, whatever encode_token is.
C6_Original ==
    \A r \in Reqs :
        (config.tokenSource = unchanged /\ Matches(config, Inbound(r)) /\ Served(r))
            => /\ err[r] = NoErr
               /\ reqHeader[r] = <<config.targetType \o <<SP>> \o PayloadOf(Inbound(r))>>

\* C6 amended: with token_source unchanged and a header of the expected scheme,
\* the extractor succeeds without decoding and returns the inbound payload byte
\* for byte; the rewritten header carries that payload when encode_token is
\* false and its standard base64 encoding when encode_token is true.
C6_Unchanged ==
    \A r \in Reqs :
        (config.tokenSource = unchanged /\ Matches(config, Inbound(r)) /\ pc[r] # "start")
            => /\ err[r] = NoErr
               /\ pc[r] = "check" => token[r] = PayloadOf(Inbound(r))
               /\ Served(r) =>
                    LET T == token[r]
                    IN  /\ reqHeader[r] = <<config.targetType \o <<SP>> \o T>>
                        /\ IF config.encodeToken
                           THEN IsStdBase64Of(T, PayloadOf(Inbound(r)))
                           ELSE T = PayloadOf(Inbound(r))

C6_Witness ==
    \E r \in Reqs :
        /\ pc[r] = "done" /\ err[r] = NoErr
        /\ config.tokenSource = unchanged /\ config.sourceType = bearer
        /\ config.encodeToken
        /\ Has(PayloadOf(Inbound(r)), SP)
        /\ ~DecodeString(PayloadOf(Inbound(r))).ok

\* C7: with token_source decoded, a header of the expected scheme whose payload
\* is valid padded standard base64 yields exactly the decoded bytes, with or
\* without a colon and whatever source_type is; extraction fails only for a
\* malformed header, a scheme mismatch or a payload that does not decode.
C7_Decoded ==
    \A r \in Reqs :
        (config.tokenSource = decoded /\ pc[r] = "check") =>
            LET h == Inbound(r)
            IN  /\ ~Has(h, SP) => err[r] = ErrContents
                /\ (Has(h, SP) /\ SchemeOf(h) # config.sourceType) => err[r] = ErrType
                /\ Matches(config, h) =>
                      /\ DecodeString(PayloadOf(h)).ok
                            => /\ err[r] = NoErr
                               /\ token[r] = DecodeString(PayloadOf(h)).out
                      /\ ~DecodeString(PayloadOf(h)).ok => err[r] = ErrBase64
                      /\ \A c \in Credentials :
                            PayloadOf(h) = EncodeToString(c)
                                => (err[r] = NoErr /\ token[r] = c)

C7_Witness ==
    \E r \in Reqs :
        /\ pc[r] = "check" /\ err[r] = NoErr
        /\ config.tokenSource = decoded /\ config.sourceType = bearer
        /\ Len(token[r]) = 2 /\ ~Has(token[r], COLON)

\* C8: with source_type "Basic" and a "Basic <payload>" header, the decoded
\* string is cut at its first colon only: username gives the left part, password
\* the right part with any later colons, combined the left part directly
\* followed by the right part; without a colon the extractor fails.
C8_Split ==
    \A r \in Reqs :
        (/\ config.tokenSource \in Splitting /\ config.sourceType = basic
         /\ pc[r] = "check"
         /\ Matches(config, Inbound(r))
         /\ DecodeString(PayloadOf(Inbound(r))).ok) =>
            LET d == DecodeString(PayloadOf(Inbound(r))).out
            IN  IF Has(d, COLON)
                THEN /\ err[r] = NoErr
                     /\ Left(d, COLON) \o <<COLON>> \o Right(d, COLON) = d
                     /\ ~Has(Left(d, COLON), COLON)
                     /\ config.tokenSource = username => token[r] = Left(d, COLON)
                     /\ config.tokenSource = password => token[r] = Right(d, COLON)
                     /\ config.tokenSource = combined
                           => /\ token[r] = Left(d, COLON) \o Right(d, COLON)
                              /\ Len(token[r]) = Len(d) - 1
                ELSE err[r] = ErrValue

C8_Witness ==
    \E r \in Reqs :
        /\ pc[r] = "check" /\ err[r] = NoErr
        /\ config.tokenSource = combined /\ config.sourceType = basic
        /\ Has(token[r], COLON) /\ Len(token[r]) = 2

\* C9: with several requests in flight on one handler, under every
\* interleaving, no step of a request writes the shared configuration, the
\* handler or another request, and each request ends, forwarded once, with the
\* Authorization values it would have had if it had been handled alone.
C9_Isolation ==
    /\ [](/\ (handler # Nil => handler.config = config)
          /\ \A r \in Reqs :
                /\ rw[r] = NoResponse
                /\ nextCalls[r] <= 1
                /\ pc[r] = "done" =>
                      /\ reqHeader[r] = ServeHTTPAlone(config, inbound[r])
                      /\ seen[r] = reqHeader[r]
                      /\ nextCalls[r] = 1)
    /\ [][/\ config' = config
          /\ (constructed => handler' = handler)
          /\ \A r \in Reqs :
                \/ <<inbound[r], reqHeader[r], rw[r], pc[r], nextCalls[r], seen[r]>>'
                      = <<inbound[r], reqHeader[r], rw[r], pc[r], nextCalls[r], seen[r]>>
                \/ \A q \in Reqs \ {r} :
                      <<inbound[q], reqHeader[q], rw[q], pc[q], nextCalls[q], seen[q]>>'
                        = <<inbound[q], reqHeader[q], rw[q], pc[q], nextCalls[q], seen[q]>>]_vars

C9_Witness ==
    \E r1, r2 \in Reqs :
        /\ r1 # r2
        /\ pc[r1] = "check" /\ err[r1] = NoErr
        /\ pc[r2] = "done" /\ err[r2] # NoErr
        /\ inbound[r1] # inbound[r2]

====
